---- MODULE Spec2Model ----
(***************************************************************************)
(* The interval timer of Plank Trainer (src/src/App.jsx, component App).   *)
(*                                                                         *)
(* React state: level, customWork, customRest, phase, running, setNo,      *)
(* remain.  One step of the model is one browser task together with the    *)
(* render it causes and the effects of that render (setState calls of one  *)
(* task are batched into one render).  The only asynchronous gap the code  *)
(* has is `await audioCtx.resume()` inside ensureAudio: while the audio    *)
(* context is suspended, the continuations of start() and of go() wait in  *)
(* `pending` until the context runs again; while it is running the awaits  *)
(* finish in microtasks of the same task, so the continuation belongs to   *)
(* the step that made the call.                                            *)
(***************************************************************************)
EXTENDS Integers, Sequences, FiniteSets, TLC

VARIABLES
    level,        \* useState('beginner')
    customWork,   \* useState(20): the text of the work input
    customRest,   \* useState(30): the text of the rest input
    phase,        \* 'idle' | 'work' | 'rest' | 'done'
    running,      \* useState(false)
    setNo,        \* useState(1)
    remain,       \* useState(0)
    presetSets,   \* the `sets` field of the PRESETS entries
    audio,        \* audioCtxRef.current: "none" | "running" | "suspended"
    pending,      \* continuations waiting for audioCtx.resume() to resolve
    ticks,        \* history: interval callbacks since remain was last assigned
    dur,          \* history: the value remain was last assigned
    clean,        \* history: no user action since start() last took effect
    last,         \* history: the step taken last
    armed,        \* intervals set by setInterval and not yet cleared
    bt,           \* history: boundary tones beep(880, 120) of the last step
    cs,           \* history: completion signals (660 then 990) of the last step
    posture,      \* useState('good')
    advice,       \* useState(''): whether the advice text is shown
    cb,           \* phase and running in the closure given to pose.onResults
    pb            \* history: the last step played the posture beep(520, 90)

vars == <<level, customWork, customRest, phase, running, setNo, remain,
          presetSets, audio, pending, ticks, dur, clean, last, armed, bt, cs,
          posture, advice, cb, pb>>

\* ---------------------------------------------------------------- bounds
\* the interval callback is not modelled below remain = -MaxNeg
MaxNeg == 2
\* at most this many continuations wait for one resume()
MaxPending == 2
\* set counts tried by SpecSets
MaxSets == 3

\* ------------------------------------------------------------ configuration
Levels == {"beginner", "intermediate", "advanced", "custom"}

\* the texts typed into the two number inputs; "20" and "30" are the
\* initial values
WorkInputs == {"", "0", "2", "20"}
RestInputs == {"abc", "-1", "1", "30"}

\* PRESETS[level].sets
PresetSets == 3

PRESETS(l) ==
    CASE l = "beginner"     -> [workSec |-> 20, restSec |-> 30, sets |-> presetSets]
      [] l = "intermediate" -> [workSec |-> 45, restSec |-> 30, sets |-> presetSets]
      [] l = "advanced"     -> [workSec |-> 75, restSec |-> 30, sets |-> presetSets]
      [] l = "custom"       -> [workSec |-> 20, restSec |-> 30, sets |-> presetSets]

\* Number(v): NaN for a text that is no number, 0 for the empty text
IsNaN(v) == v = "abc"

NumberOf(v) ==
    CASE v = ""    -> 0
      [] v = "0"   -> 0
      [] v = "-1"  -> -1
      [] v = "1"   -> 1
      [] v = "2"   -> 2
      [] v = "20"  -> 20
      [] v = "30"  -> 30
      [] OTHER     -> 0

Max(a, b) == IF a >= b THEN a ELSE b

\* Number(v) || 1 without Math.max
Clamp_NoMax(v) == IF IsNaN(v) \/ NumberOf(v) = 0 THEN 1 ELSE NumberOf(v)

\* Math.max(1, Number(v) || 1)
Clamp(v) == Max(1, IF IsNaN(v) \/ NumberOf(v) = 0 THEN 1 ELSE NumberOf(v))

\* the useMemo of lines 55-63
ConfigOf(l, cw, cr) ==
    IF l # "custom" THEN PRESETS(l)
    ELSE [PRESETS(l) EXCEPT !.workSec = Clamp(cw), !.restSec = Clamp(cr)]

config == ConfigOf(level, customWork, customRest)

\* ------------------------------------------------------------ timer state
\* the four timer states of one render, with the tick history; a step
\* starts with no tone played
Cur == [phase |-> phase, running |-> running, setNo |-> setNo,
        remain |-> remain, ticks |-> ticks, dur |-> dur, clean |-> clean,
        bt |-> 0, cs |-> 0]

\* the interval effect without its cleanup
intervalEffect_NoCleanup(was, now, a) ==
    IF now = was THEN a
    ELSE IF now THEN a + 1 ELSE a

\* the interval effect without `if (!running) return`
intervalEffect_NoReturn(was, now, a) ==
    IF now = was THEN a
    ELSE LET cleared == IF was THEN a - 1 ELSE a
         IN  cleared + 1

\* the interval effect, lines 118-124, deps [running]: when running has
\* changed the cleanup of the previous run clears its interval, and the
\* new run sets one if running
intervalEffect(was, now, a) ==
    IF now = was THEN a
    ELSE LET cleared == IF was THEN a - 1 ELSE a
         IN  IF now THEN cleared + 1 ELSE cleared

Commit(s) ==
    /\ phase' = s.phase
    /\ running' = s.running
    /\ setNo' = s.setNo
    /\ remain' = s.remain
    /\ ticks' = s.ticks
    /\ dur' = s.dur
    /\ clean' = s.clean
    /\ bt' = s.bt
    /\ cs' = s.cs
    /\ armed' = intervalEffect(running, s.running, armed)
    /\ pb' = FALSE
    /\ UNCHANGED <<posture, advice, cb>>

\* resetAll without setSetNo(1)
resetAll_KeepsSet(s) ==
    [s EXCEPT !.running = FALSE, !.phase = "idle",
              !.remain = 0, !.ticks = 0, !.dur = 0, !.clean = FALSE]

\* resetAll, lines 93-98
resetAll(s) ==
    [s EXCEPT !.running = FALSE, !.phase = "idle", !.setNo = 1,
              !.remain = 0, !.ticks = 0, !.dur = 0, !.clean = FALSE]

\* start after its await, lines 102-106, with its tone; w is the
\* config.workSec the closure holds
startBody(s, w) ==
    [s EXCEPT !.setNo = 1, !.phase = "work", !.remain = w,
              !.running = TRUE, !.ticks = 0, !.dur = w, !.clean = TRUE,
              !.bt = @ + 1]

\* go without setRunning(false) in its done branch
go_KeepsRunning(s, g) ==
    IF g.phase = "work" THEN
        IF g.setNo >= g.sets
        THEN [s EXCEPT !.phase = "done", !.remain = 0, !.ticks = 0, !.dur = 0,
                       !.bt = @ + 1, !.cs = @ + 1]
        ELSE [s EXCEPT !.phase = "rest", !.remain = g.restSec, !.ticks = 0,
                       !.dur = g.restSec, !.bt = @ + 1]
    ELSE IF g.phase = "rest" THEN
        [s EXCEPT !.setNo = @ + 1, !.phase = "work", !.remain = g.workSec,
                  !.ticks = 0, !.dur = g.workSec, !.bt = @ + 1]
    ELSE [s EXCEPT !.bt = @ + 1]

\* go from the tone of `await beep(880, 120)` on, lines 134-156; g holds
\* the phase, setNo and config of the render whose effect called go
go(s, g) ==
    IF g.phase = "work" THEN
        IF g.setNo >= g.sets
        THEN [s EXCEPT !.phase = "done", !.running = FALSE, !.remain = 0,
                       !.ticks = 0, !.dur = 0, !.bt = @ + 1, !.cs = @ + 1]
        ELSE [s EXCEPT !.phase = "rest", !.remain = g.restSec, !.ticks = 0,
                       !.dur = g.restSec, !.bt = @ + 1]
    ELSE IF g.phase = "rest" THEN
        [s EXCEPT !.setNo = @ + 1, !.phase = "work", !.remain = g.workSec,
                  !.ticks = 0, !.dur = g.workSec, !.bt = @ + 1]
    ELSE [s EXCEPT !.bt = @ + 1]

\* what a waiting continuation holds
GoRec(s, cfg) ==
    [kind |-> "go", phase |-> s.phase, setNo |-> s.setNo, sets |-> cfg.sets,
     workSec |-> cfg.workSec, restSec |-> cfg.restSec]

StartRec(cfg) ==
    [kind |-> "start", phase |-> "idle", setNo |-> 0, sets |-> 0,
     workSec |-> cfg.workSec, restSec |-> 0]

Resume(s, p) ==
    IF p.kind = "start" THEN startBody(s, p.workSec) ELSE go(s, p)

\* the continuations run in the order of their resume() calls
RECURSIVE ResumeAll(_, _)
ResumeAll(s, q) ==
    IF q = <<>> THEN s ELSE ResumeAll(Resume(s, Head(q)), Tail(q))

\* the transition guard with `remain > 0` for `remain >= 0`
Exhausted_AtZero(s) ==
    /\ s.running
    /\ s.phase # "idle" /\ s.phase # "done"
    /\ s.remain <= 0

\* the guards of the phase transition effect, lines 128-130
Exhausted(s) ==
    /\ s.running
    /\ s.phase # "idle" /\ s.phase # "done"
    /\ s.remain < 0

\* ------------------------------------------------------------------ Init
InitTimer ==
    /\ level = "beginner"
    /\ customWork = "20"
    /\ customRest = "30"
    /\ phase = "idle"
    /\ running = FALSE
    /\ setNo = 1
    /\ remain = 0
    /\ audio = "none"
    /\ pending = <<>>
    /\ ticks = 0
    /\ dur = 0
    /\ clean = FALSE
    /\ last = "init"
    /\ armed = 0
    /\ bt = 0
    /\ cs = 0
    /\ posture = "good"
    /\ advice = FALSE
    /\ cb = [phase |-> "idle", running |-> FALSE]
    /\ pb = FALSE

Init == InitTimer /\ presetSets = PresetSets

\* --------------------------------------------------------------- actions
\* the select without disabled={running}
SetLevel_WhileRunning(l) ==
    /\ last' = "config"
    /\ l # level
    /\ level' = l
    /\ Commit(resetAll(Cur))
    /\ UNCHANGED <<customWork, customRest, presetSets, audio, pending>>

\* a change of level, customWork or customRest: the effect of lines 112-115
\* calls resetAll
SetLevel(l) ==
    /\ last' = "config"
    /\ ~running
    /\ l # level
    /\ level' = l
    /\ Commit(resetAll(Cur))
    /\ UNCHANGED <<customWork, customRest, presetSets, audio, pending>>

SetCustomWork(v) ==
    /\ last' = "config"
    /\ level = "custom"
    /\ ~running
    /\ v # customWork
    /\ customWork' = v
    /\ Commit(resetAll(Cur))
    /\ UNCHANGED <<level, customRest, presetSets, audio, pending>>

SetCustomRest(v) ==
    /\ last' = "config"
    /\ level = "custom"
    /\ ~running
    /\ v # customRest
    /\ customRest' = v
    /\ Commit(resetAll(Cur))
    /\ UNCHANGED <<level, customWork, presetSets, audio, pending>>

\* the Reset button, lines 307-309
Reset ==
    /\ last' = "reset"
    /\ Commit(resetAll(Cur))
    /\ UNCHANGED <<level, customWork, customRest, presetSets, audio, pending>>

\* the Pause button, line 109 and lines 304-306
stop ==
    /\ last' = "stop"
    /\ running
    /\ Commit([Cur EXCEPT !.running = FALSE, !.clean = FALSE])
    /\ UNCHANGED <<level, customWork, customRest, presetSets, audio, pending>>

\* the Start button, lines 100-107 and 297-303.  ensureAudio creates the
\* context on first use: the constructor throws (the ref stays null and
\* start ends at its await), or the new context is running or suspended,
\* as the browser decides.  A suspended context makes start wait for
\* resume().
start ==
    /\ last' = "start"
    /\ ~(running \/ phase = "work" \/ phase = "rest")
    /\ \E a \in (IF audio = "none" THEN {"none", "running", "suspended"}
                                   ELSE {audio}) :
          /\ audio' = a
          /\ IF a = "running"
             THEN /\ Commit(startBody(Cur, config.workSec))
                  /\ pending' = pending
             ELSE IF a = "suspended"
             THEN /\ Len(pending) < MaxPending
                  /\ pending' = Append(pending, StartRec(config))
                  /\ Commit([Cur EXCEPT !.clean = FALSE])
             ELSE /\ pending' = pending
                  /\ Commit([Cur EXCEPT !.clean = FALSE])
    /\ UNCHANGED <<level, customWork, customRest, presetSets>>

\* one callback of the interval of lines 118-124, the render it causes and
\* the phase transition effect of lines 127-161 on that render
Tick ==
    /\ last' = "tick"
    /\ armed >= 1
    /\ remain > -MaxNeg
    /\ LET s == [Cur EXCEPT !.remain = @ - 1, !.ticks = @ + 1] IN
          IF Exhausted(s)
          THEN IF audio = "running"
               THEN /\ Commit(go(s, GoRec(s, config)))
                    /\ pending' = pending
               ELSE /\ Len(pending) < MaxPending
                    /\ pending' = Append(pending, GoRec(s, config))
                    /\ Commit(s)
          ELSE /\ Commit(s)
               /\ pending' = pending
    /\ UNCHANGED <<level, customWork, customRest, presetSets, audio>>

\* the browser suspends the audio context
AudioSuspend ==
    /\ last' = "suspend"
    /\ audio = "running"
    /\ audio' = "suspended"
    /\ bt' = 0 /\ cs' = 0 /\ pb' = FALSE
    /\ UNCHANGED <<level, customWork, customRest, phase, running, setNo,
                   remain, presetSets, pending, ticks, dur, clean, armed,
                   posture, advice, cb>>

\* the context runs again: every waiting resume() resolves
AudioResumed ==
    /\ last' = "resumed"
    /\ audio = "suspended"
    /\ pending # <<>>
    /\ audio' = "running"
    /\ pending' = <<>>
    /\ Commit(ResumeAll(Cur, pending))
    /\ UNCHANGED <<level, customWork, customRest, presetSets>>

\* resume() rejects: every waiting start and go ends at its await, without
\* its tone and without its state updates
AudioRejected ==
    /\ last' = "rejected"
    /\ audio = "suspended"
    /\ pending # <<>>
    /\ pending' = <<>>
    /\ Commit(Cur)
    /\ UNCHANGED <<level, customWork, customRest, presetSets, audio>>

\* onResults playing the posture beep whenever the posture is bad
onResultsBeeps_NoGuard(c, good) == ~good

\* lines 216-220: the beep of a frame with bad posture; c holds the phase
\* and running of the closure
onResultsBeeps(c, good) == ~good /\ c.phase = "work" /\ c.running

\* one frame of the pose source, lines 184-226, through the onResults that
\* the effect of lines 164-181 (deps []) gave to pose.onResults at mount;
\* f is "none" for a frame without landmarks
onResults(f) ==
    /\ last' = (IF f = "none" THEN "noframe" ELSE "frame")
    /\ IF f = "none"
       THEN /\ UNCHANGED <<posture, advice>>
            /\ pb' = FALSE
       ELSE /\ posture' = f
            /\ advice' = (f = "bad")
            /\ pb' = onResultsBeeps(cb, f = "good")
    /\ bt' = 0 /\ cs' = 0
    /\ UNCHANGED <<level, customWork, customRest, phase, running, setNo,
                   remain, presetSets, audio, pending, ticks, dur, clean,
                   armed, cb>>

Next ==
    \/ \E l \in Levels : SetLevel(l)
    \/ \E v \in WorkInputs : SetCustomWork(v)
    \/ \E v \in RestInputs : SetCustomRest(v)
    \/ Reset
    \/ stop
    \/ start
    \/ Tick
    \/ AudioSuspend
    \/ AudioResumed
    \/ AudioRejected

Spec == Init /\ [][Next]_vars

\* the same program with every set count 1..MaxSets in the PRESETS table:
\* go compares setNo with config.sets whatever its value
InitSets == InitTimer /\ presetSets \in 1..MaxSets

SpecSets == InitSets /\ [][Next]_vars

\* a run nobody interrupts: no Pause, and Reset only outside Work and Rest
\* (the configuration inputs are disabled while running); the interval
\* fires as long as it is armed
ResetOutsideRun == ~(phase = "work" \/ phase = "rest") /\ Reset

NextRun ==
    \/ \E l \in Levels : SetLevel(l)
    \/ \E v \in WorkInputs : SetCustomWork(v)
    \/ \E v \in RestInputs : SetCustomRest(v)
    \/ ResetOutsideRun
    \/ start
    \/ Tick
    \/ AudioSuspend
    \/ AudioResumed
    \/ AudioRejected

SpecRun == Init /\ [][NextRun]_vars /\ WF_vars(Tick)

\* the timer together with the frames of the pose source, which leave the
\* timer's state alone; the custom inputs keep their initial values
NextPose ==
    \/ \E l \in Levels : SetLevel(l)
    \/ Reset
    \/ stop
    \/ start
    \/ Tick
    \/ AudioSuspend
    \/ AudioResumed
    \/ AudioRejected
    \/ \E f \in {"none", "good", "bad"} : onResults(f)

SpecPose == Init /\ [][NextPose]_vars

\* every kind of text in both custom inputs
AllInputs == {"", "abc", "0", "-1", "1", "2", "20", "30"}

NextInputs ==
    \/ \E l \in Levels : SetLevel(l)
    \/ \E v \in AllInputs : SetCustomWork(v)
    \/ \E v \in AllInputs : SetCustomRest(v)
    \/ Reset
    \/ stop
    \/ start
    \/ Tick
    \/ AudioResumed

SpecInputs == Init /\ [][NextInputs]_vars

TypeOK ==
    /\ level \in Levels
    /\ phase \in {"idle", "work", "rest", "done"}
    /\ running \in BOOLEAN
    /\ audio \in {"none", "running", "suspended"}
    /\ Len(pending) <= MaxPending

\* ---------------------------------------------------------------- claims
Timed == phase = "work" \/ phase = "rest"

\* C5: in every reachable state 1 <= currentSet <= totalSets
C5_SetInRange == 1 <= setNo /\ setNo <= config.sets

\* C6: remainingSeconds is never below -1, and never negative while the
\* timer is not running or the phase is Idle or Done
C6_RemainTransient ==
    /\ remain >= -1
    /\ (~running \/ ~Timed) => remain >= 0

\* C7: Done implies not running, and running implies Work or Rest
C7_RunningOnlyTimed ==
    /\ phase = "done" => ~running
    /\ running => Timed

\* C7: a run has reached Done and stopped by itself
C7_Witness == phase = "done" /\ ~running /\ last = "tick" /\ setNo = config.sets

same == phase' = phase /\ setNo' = setNo /\ remain' = remain

\* a step of the timer itself: an interval callback or a continuation
TimerStep == last' = "tick" \/ last' = "resumed"

\* C1: after start() and with no user action the run visits Work(1),
\* Rest(1), ..., Work(N), Done: Work(n) is followed by Rest(n) when n < N and
\* by Done when n = N, Rest(n) by Work(n+1), and currentSet changes nowhere
\* else
C1_Sequence ==
    [][(clean /\ clean' /\ Timed /\ TimerStep
            /\ <<phase', setNo'>> # <<phase, setNo>>)
        => \/ phase = "work" /\ setNo < config.sets
              /\ phase' = "rest" /\ setNo' = setNo
           \/ phase = "work" /\ setNo = config.sets
              /\ phase' = "done" /\ setNo' = setNo
           \/ phase = "rest" /\ phase' = "work" /\ setNo' = setNo + 1]_vars

C4_Countdown ==
    [][(TimerStep /\ Timed)
        => IF phase' = phase /\ setNo' = setNo
           THEN remain' = remain - 1 /\ remain' >= 0
           ELSE last' = "tick" /\ remain = 0]_vars

\* C8: reset() yields phase Idle, currentSet 1, remainingSeconds 0 and
\* running false, whatever the state it is invoked in
C8_ResetState ==
    last = "reset" => phase = "idle" /\ setNo = 1 /\ remain = 0 /\ ~running

\* C8: Reset was pressed while a phase transition of a run was waiting
C8_Witness == last = "reset" /\ pending # <<>> /\ pending[1].kind = "go"

\* C9: stop() sets running to false and leaves phase, currentSet and
\* remainingSeconds as they are, and they stay so while the timer is paused
C9_PausePreserves ==
    [][/\ last' = "stop" => ~running' /\ same
       /\ (~running /\ Timed /\ ~running' /\ Timed') => same]_vars

\* a user action other than Start that re-arms the clock and leaves the
\* timer where stop() left it
Resume_Step ==
    /\ \/ \E l \in Levels : SetLevel(l)
       \/ \E v \in WorkInputs : SetCustomWork(v)
       \/ \E v \in RestInputs : SetCustomRest(v)
       \/ Reset
       \/ stop
    /\ running'
    /\ same

\* C10: after stop() during Work or Rest some user action other than Start
\* sets running again with phase, currentSet and remainingSeconds untouched
C10_CanResume == (last = "stop" /\ Timed) => ENABLED Resume_Step

\* a step in which a start() reached its state updates: at once, or among
\* the continuations of a resume()
StartTookEffect ==
    \/ last' = "start" /\ running'
    \/ last' = "resumed" /\ \E i \in 1..Len(pending) : pending[i].kind = "start"

\* every start among the continuations q meets phase Idle or Done, not
\* running, and holds the workSec of the configuration in force
RECURSIVE StartsInOrder(_, _)
StartsInOrder(s, q) ==
    \/ q = <<>>
    \/ /\ Head(q).kind = "start"
            => /\ s.phase \in {"idle", "done"}
               /\ ~s.running
               /\ Head(q).workSec = config.workSec
       /\ StartsInOrder(Resume(s, Head(q)), Tail(q))

\* C11: start() takes effect only in phase Idle or Done, also when its audio
\* priming completes late, and gives currentSet 1, phase Work, remaining =
\* the current configuration's workSeconds, running, and one boundary tone
C11_StartEffect ==
    [][/\ last' = "resumed" => StartsInOrder(Cur, pending)
       /\ StartTookEffect
            => /\ phase \in {"idle", "done"}
               /\ setNo' = 1 /\ phase' = "work" /\ running'
               /\ remain' = config.workSec
               /\ bt' = 1]_vars

\* C12: the posture beep is played only in phase Work with running true
C12_CueOnlyInWork == pb => phase = "work" /\ running

\* C12: a frame with bad posture came during a running Rest, without beep
C12_Witness ==
    last = "frame" /\ posture = "bad" /\ ~pb /\ phase = "rest" /\ running

\* C13: no interval callback decrements remaining while running is false
C13_NoTickWhenStopped == [][last' = "tick" => running]_vars

\* C13: a run was paused after some ticks and its interval is cleared
C13_Witness ==
    last = "stop" /\ ~running /\ Timed /\ ticks > 0 /\ armed = 0

\* C14: every change of level, custom work or custom rest seconds happens
\* with running false and leaves phase Idle, currentSet 1, remaining 0,
\* running false
C14_ConfigResets ==
    [][<<level', customWork', customRest'>> # <<level, customWork, customRest>>
        => /\ ~running
           /\ phase' = "idle" /\ setNo' = 1 /\ remain' = 0 /\ ~running']_vars

\* C14: the configuration was changed while a paused run had a transition
\* waiting
C14_Witness == last = "config" /\ pending # <<>> /\ pending[1].kind = "go"

\* C15: a failure of the audio context is absorbed: when resume() rejects
\* the waiting start and transitions still take effect, and a start whose
\* context cannot be created still puts the timer into Work, running
C15_FailureAbsorbed ==
    [][/\ last' = "rejected"
            => LET r == ResumeAll(Cur, pending) IN
                 /\ phase' = r.phase /\ running' = r.running
                 /\ setNo' = r.setNo /\ remain' = r.remain
       /\ (last' = "start" /\ audio' = "none")
            => phase' = "work" /\ running']_vars

\* the number a text of positive digits stands for
PositiveInput(v) ==
    CASE v = "1" -> 1 [] v = "2" -> 2 [] v = "20" -> 20 [] v = "30" -> 30
      [] OTHER -> 0

\* C16: whatever the custom inputs hold (empty, no number, zero, negative,
\* positive), workSec and restSec of the configuration are >= 1, a positive
\* integer is used as it is, and sets >= 1
C16_ConfigClamped ==
    /\ config.workSec >= 1 /\ config.restSec >= 1 /\ config.sets >= 1
    /\ (level = "custom" /\ PositiveInput(customWork) > 0)
          => config.workSec = PositiveInput(customWork)
    /\ (level = "custom" /\ PositiveInput(customRest) > 0)
          => config.restSec = PositiveInput(customRest)
    /\ (phase = "work" /\ last = "start") => remain = config.workSec

\* C16: a run started with a negative work input and a rest input that is
\* no number
C16_Witness ==
    /\ level = "custom" /\ customWork = "-1" /\ customRest = "abc"
    /\ phase = "rest" /\ running /\ dur = 1

\* C17: a start() that takes effect plays one boundary tone; a step of the
\* timer plays one boundary tone when it changes the phase and none
\* otherwise, and one completion signal exactly when it enters Done
C17_OneTonePerTransition ==
    [][/\ last' = "start" => bt' = (IF running' THEN 1 ELSE 0) /\ cs' = 0
       /\ (TimerStep /\ ~StartTookEffect)
            => /\ bt' = IF <<phase', setNo'>> # <<phase, setNo>> THEN 1 ELSE 0
               /\ cs' = IF phase' = "done" /\ phase # "done" THEN 1 ELSE 0]_vars

\* C18: at most one interval is set, and one is set exactly when running
C18_OneInterval == armed <= 1 /\ (armed = 1 <=> running)

\* C18: a run was started again and has one interval
C18_Witness ==
    running /\ armed = 1 /\ last = "resumed" /\ pending = <<>> /\ setNo = 1

\* C19: from reset() or a config change until the next start() the state
\* stays Idle, currentSet 1, remaining 0, running false, whatever
\* transition was waiting
C19_ResetStays ==
    [][(phase = "idle" /\ ~StartTookEffect)
        => phase' = "idle" /\ setNo' = 1 /\ remain' = 0 /\ ~running']_vars

\* C20: a frame classified as bad posture while phase is Work and running
\* is true plays the posture beep
C20_BadPostureBeeps ==
    (last = "frame" /\ posture = "bad" /\ phase = "work" /\ running) => pb
====
